---- MODULE Spec2Model ----
(***************************************************************************)
(* Model of ch_pipeline: the ring-map maker                                *)
(* (ch_pipeline/analysis/mapmaker.py, RingMapMaker.process), the HFB file  *)
(* loader (hfb/io.py), the two CHIMEPathfinder telescopes (pathfinder.py,  *)
(* core/pathfinder.py) and the processing types (processing/base.py).      *)
(* Each has its own specification; the objects of the others stay as they  *)
(* are constructed.                                                        *)
(*                                                                         *)
(* Numbers.  Row positions are integers (multiples of a length unit), so   *)
(* ysep / min_ysep is a rational that np.round rounds half-to-even.        *)
(* Weights, redundancies and the parts of a visibility are integers; the   *)
(* normalised coefficients are exact rationals <<num, den>> in lowest      *)
(* terms, so the model follows the arithmetic of process without the       *)
(* rounding of float64.  The input has one right-ascension sample: every   *)
(* statement of process slices the ra axis and the frequency axis alike.   *)
(***************************************************************************)
EXTENDS Integers, Sequences, FiniteSets, TLC

\* ------------------------------------------------------------------ bounds
MaxRows == 3
MaxCyls == 2
MaxWeight == 2
MaxRedundancy == 2

\* --------------------------------------------------------------- arithmetic
Abs(x) == IF x < 0 THEN -x ELSE x

RECURSIVE Gcd(_, _)
Gcd(a, b) == IF b = 0 THEN a ELSE Gcd(b, a % b)

\* a rational in lowest terms, denominator positive; a zero denominator is
\* what float64 gives for it: <<1, 0>> is inf, <<-1, 0>> is -inf, <<0, 0>> NaN
Rat(n, d) ==
    LET g == Gcd(Abs(n), Abs(d))
        s == IF d < 0 THEN -1 ELSE 1
    IN  IF d = 0 THEN <<IF n > 0 THEN 1 ELSE IF n < 0 THEN -1 ELSE 0, 0>>
        ELSE IF n = 0 THEN <<0, 1>>
        ELSE <<(s * n) \div g, (s * d) \div g>>

RatAdd(a, b) == Rat(a[1] * b[2] + b[1] * a[2], a[2] * b[2])
RatMul(a, b) == Rat(a[1] * b[1], a[2] * b[2])
RatZero == <<0, 1>>
RatOne == <<1, 1>>
Finite(r) == r[2] # 0

\* complex numbers are <<re, im>>
Conj(v) == <<v[1], -v[2]>>

RECURSIVE RatSumSeq(_)
RatSumSeq(s) == IF s = <<>> THEN RatZero ELSE RatAdd(Head(s), RatSumSeq(Tail(s)))

SetMin(S) == CHOOSE x \in S : \A y \in S : x <= y
SetMax(S) == CHOOSE x \in S : \A y \in S : x >= y

\* int(np.round(a / b)) for b > 0: round half to even
RoundDiv(a, b) ==
    LET q == a \div b
        r == a - q * b
    IN  IF 2 * r < b THEN q
        ELSE IF 2 * r > b THEN q + 1
        ELSE IF q % 2 = 0 THEN q ELSE q + 1

\* a plain reciprocal: 1/0 is inf
Reciprocal(r) == Rat(r[2], r[1])

\* tools.invert_no_zero: 0 where r = 0, 1/r elsewhere
InvertNoZero(r) == IF r = RatZero THEN RatZero ELSE Rat(r[2], r[1])

\* a Python index into an axis of length n: negative indices count from the end
IndexOk(y, n) == (-n <= y) /\ (y < n)
Slot(y, n) == IF y >= 0 THEN y ELSE n + y

\* ------------------------------------------------------------------- inputs
\* tel.feeds of a regular array: Rows row positions (Spacing apart) on each of
\* Cyls cylinders, Pols polarisations per position; ordered by cylinder, then
\* polarisation, then row.  A feed is [pol, cyl, pos], pos its pos[1].
Feeds(Rows, Cyls, Pols, Spacing) ==
    [k \in 1..(Rows * Cyls * Pols) |->
        LET r == (k - 1) % (Rows * Pols)
        IN  [pol |-> IF r \div Rows = 0 THEN "E" ELSE "S",
             cyl |-> (k - 1) \div (Rows * Pols),
             pos |-> (r % Rows) * Spacing]]

\* the arrays the small inputs are drawn over, of at most three feeds: the
\* regular single-polarisation arrays, a co-located pair of both polarisations
\* with a neighbour, and a thinned two-cylinder array
SmallArrays ==
    {Feeds(l.rows, l.cyls, 1, 2) :
        l \in {m \in [rows : 1..MaxRows, cyls : 1..MaxCyls] : m.rows * m.cyls <= 3}}
    \cup {<<[pol |-> "E", cyl |-> 0, pos |-> 0],
            [pol |-> "S", cyl |-> 0, pos |-> 0],
            [pol |-> "E", cyl |-> 0, pos |-> 2]>>,
          <<[pol |-> "E", cyl |-> 0, pos |-> 0],
            [pol |-> "E", cyl |-> 0, pos |-> 4],
            [pol |-> "E", cyl |-> 1, pos |-> 2]>>}

\* the arrays of the end-to-end scenario: a full single-polarisation grid
GridLayouts == [rows : 1..MaxRows, cyls : 1..MaxCyls, pols : {1}, spacing : {1}]

\* every pair ii + k <= jj of n feeds, in the order of the upper triangle:
\* k = 0 with the auto-correlations, k = 1 without
UpperTriangle(n, k) ==
    LET S == {pr \in (1..n) \X (1..n) : pr[1] + k <= pr[2]}
        Before(a, b) == a[1] < b[1] \/ (a[1] = b[1] /\ a[2] <= b[2])
    IN  [m \in 1..Cardinality(S) |->
            CHOOSE pr \in S : Cardinality({q \in S : Before(q, pr)}) = m]

Weightings == {"uniform", "natural", "inverse_variance", "bogus"}

VARIABLES
    weighting, intracyl,            \* configuration of the task
    feeds, redundancy,              \* self.tel
    prod, vis, weight, nfreq,       \* sstream
    pc, err,                        \* position in process, exception raised
    pol, xindex, yindex,            \* feed_index
    min_ysep, nfeed, nvis_1d, ncyl, nbeam,
    vdr, wgh, smp,                  \* the packed grids
    vis_ind,                        \* loop variable of the unpacking loop
    coeff,                          \* cylinder weighting vector
    rm,                             \* the RingMap container, None until built
    lfi                             \* loop variable of the frequency loop

VARIABLES
    loader,                         \* the hfb.io.BaseLoadFiles task
    db, pf,                         \* the layout database, the CHIMEPathfinder
    python3,                        \* the interpreter is Python 3 (else 2)
    avail, outputs, jobs,           \* available tags, base path, the slurm queue
    gen                             \* the frame of a ProcessingType.generate call

VARIABLES
    revdir, made,                   \* the directory of a type, the last call on it
    task,                           \* the hfb.io.LoadFilesFromParams task
    callers                         \* the frames of concurrent generate calls

\* the state of the revisions, the file loader and the concurrent callers
rest == <<revdir, made, task, callers>>

\* the state outside the ring-map maker
not_ringmap == <<loader, db, pf, python3, avail, outputs, jobs, gen, rest>>

ringmap == <<weighting, intracyl, feeds, redundancy, prod, vis, weight, nfreq,
             pc, err, pol, xindex, yindex, min_ysep, nfeed, nvis_1d, ncyl, nbeam,
             vdr, wgh, smp, vis_ind, coeff, rm, lfi>>

\* the state outside the loader, the telescope, the processing type
not_loader == <<ringmap, db, pf, python3, avail, outputs, jobs, gen, rest>>
not_telescope == <<ringmap, loader, python3, avail, outputs, jobs, gen, rest>>
not_processing == <<ringmap, loader, db, pf, rest>>
not_revisions ==
    <<ringmap, loader, db, pf, python3, avail, outputs, jobs, gen, task, callers>>
not_callers ==
    <<ringmap, loader, db, pf, python3, avail, outputs, gen, revdir, made, task>>
not_task ==
    <<ringmap, loader, db, pf, python3, avail, outputs, jobs, gen, revdir, made,
      callers>>

vars == <<weighting, intracyl, feeds, redundancy, prod, vis, weight, nfreq,
          pc, err, pol, xindex, yindex, min_ysep, nfeed, nvis_1d, ncyl, nbeam,
          vdr, wgh, smp, vis_ind, coeff, rm, lfi, not_ringmap>>

inputs == <<weighting, intracyl, feeds, redundancy, prod, vis, weight, nfreq>>

None == <<>>

\* the objects no call was made on
IdleRingMap ==
    /\ weighting = "natural" /\ intracyl = TRUE /\ feeds = None
    /\ redundancy = None /\ prod = None /\ vis = None /\ weight = None
    /\ nfreq = 0
    /\ pc = "start"
    /\ err = "none"
    /\ pol = None /\ xindex = None /\ yindex = None
    /\ min_ysep = 0 /\ nfeed = 0 /\ nvis_1d = 0 /\ ncyl = 0 /\ nbeam = 0
    /\ vdr = None /\ wgh = None /\ smp = None
    /\ vis_ind = 0
    /\ coeff = None
    /\ rm = None
    /\ lfi = 0
IdleLoader == loader = None
IdleTelescope == db = None /\ pf = None
IdleProcessing ==
    python3 = FALSE /\ avail = {} /\ outputs = {} /\ jobs = None /\ gen = None
IdleRevisions == revdir = {} /\ made = None
IdleTask == task = None
IdleCallers == callers = None
IdleRest == IdleRevisions /\ IdleTask /\ IdleCallers

\* the visibility of baseline b at frequency f in the small inputs: a test
\* pattern of distinct values with nonzero imaginary part
TestVis(f, b) == <<b, f>>

\* self.tel.redundancy is read under 'natural' alone (line 141): the inputs
\* vary it there and hold it at 1 under the schemes that never read it
Redundancies == IF weighting = "natural" THEN 1..MaxRedundancy ELSE {1}

InitLocals ==
    /\ pc = "start"
    /\ err = "none"
    /\ pol = None /\ xindex = None /\ yindex = None
    /\ min_ysep = 0 /\ nfeed = 0 /\ nvis_1d = 0 /\ ncyl = 0 /\ nbeam = 0
    /\ vdr = None /\ wgh = None /\ smp = None
    /\ vis_ind = 0
    /\ coeff = None
    /\ rm = None
    /\ lfi = 0

\* one or two baselines between any feeds of a small array, any weights
InitSmall ==
    /\ nfreq = 1
    /\ feeds \in SmallArrays
    /\ \E n \in 1..2 :
        /\ prod \in [1..n -> (1..Len(feeds)) \X (1..Len(feeds))]
        /\ redundancy \in [1..n -> Redundancies]
        /\ weight \in [1..nfreq -> [1..n -> 0..MaxWeight]]
        /\ vis = [f \in 1..nfreq |-> [b \in 1..n |-> TestVis(f, b)]]

\* the end-to-end scenario: every pair of a grid, with or without the
\* auto-correlations, visibility 1+0j, one common weight and redundancy
InitGrid ==
    /\ nfreq = 1
    /\ \E l \in GridLayouts :
        /\ feeds = Feeds(l.rows, l.cyls, l.pols, l.spacing)
        /\ \E k \in {0, 1} : prod = UpperTriangle(l.rows * l.cyls, k)
    /\ Len(prod) >= 1
    /\ \E r \in Redundancies : redundancy = [b \in 1..Len(prod) |-> r]
    /\ \E w \in 0..MaxWeight : weight = [f \in 1..nfreq |-> [b \in 1..Len(prod) |-> w]]
    /\ vis = [f \in 1..nfreq |-> [b \in 1..Len(prod) |-> <<1, 0>>]]

\* the arrays of the two-frequency inputs: the co-located pair with a
\* neighbour, three rows of one cylinder, the thinned two-cylinder array
FreqArrays ==
    {<<[pol |-> "E", cyl |-> 0, pos |-> 0],
       [pol |-> "S", cyl |-> 0, pos |-> 0],
       [pol |-> "E", cyl |-> 0, pos |-> 2]>>,
     Feeds(3, 1, 1, 2),
     <<[pol |-> "E", cyl |-> 0, pos |-> 0],
       [pol |-> "E", cyl |-> 0, pos |-> 4],
       [pol |-> "E", cyl |-> 1, pos |-> 2]>>}

\* two baselines at two frequencies: the first frequency carries weight 1
\* and the visibilities b + 1j, the second other weights (zero included) and
\* other visibilities; the redundancy of the second baseline varies
InitFreq ==
    /\ weighting \in Weightings
    /\ intracyl \in BOOLEAN
    /\ nfreq = 2
    /\ feeds \in FreqArrays
    /\ prod \in [1..2 -> (1..Len(feeds)) \X (1..Len(feeds))]
    /\ \E r \in Redundancies : redundancy = <<1, r>>
    /\ \E x \in 0..MaxWeight, y \in {0, MaxWeight} :
          weight = <<[b \in 1..2 |-> 1], <<x, y>>>>
    /\ vis = [f \in 1..2 |-> [b \in 1..2 |-> <<b + 2 * (f - 1), f>>]]
    /\ InitLocals
    /\ IdleLoader /\ IdleTelescope /\ IdleProcessing /\ IdleRest

Init ==
    /\ weighting \in Weightings
    /\ intracyl \in BOOLEAN
    /\ (InitSmall \/ InitGrid)
    /\ InitLocals
    /\ IdleLoader /\ IdleTelescope /\ IdleProcessing /\ IdleRest

\* --------------------------------------------------------------- classifier
\* lines 100-108: the (pol, xindex, ysep) of every product
\* the slip of weighting the second feed by 2
PolIndexSwapped(b) ==
    (IF feeds[prod[b][1]].pol = "S" THEN 1 ELSE 0)
      + 2 * (IF feeds[prod[b][2]].pol = "S" THEN 1 ELSE 0)

PolIndex(b) ==
    2 * (IF feeds[prod[b][1]].pol = "S" THEN 1 ELSE 0)
      + (IF feeds[prod[b][2]].pol = "S" THEN 1 ELSE 0)
XSep(b) == Abs(feeds[prod[b][1]].cyl - feeds[prod[b][2]].cyl)
YSep(b) == feeds[prod[b][1]].pos - feeds[prod[b][2]].pos

\* the slip of a scale that defaults to one length unit when no separation
\* is nonzero
NonzeroSepsOrUnit ==
    LET S == {Abs(YSep(b)) : b \in {c \in 1..Len(prod) : Abs(YSep(c)) > 0}}
    IN  IF S = {} THEN {1} ELSE S

\* line 110: the list handed to np.percentile
NonzeroSeps == {Abs(YSep(b)) : b \in {c \in 1..Len(prod) : Abs(YSep(c)) > 0}}

\* np.percentile(list, [0, 100]) of a nonempty list
Percentile0(S) == SetMin(S)
Percentile100(S) == SetMax(S)

\* line 117
NFeed(maxsep, minsep) == RoundDiv(maxsep, minsep)
\* line 118
NVis1d(n) == 2 * n - 1
\* line 119
NCyl(xs) == SetMax({Abs(xs[b]) : b \in DOMAIN xs}) + 1
\* line 120
NBeam(n) == 2 * n - 1

Classify ==
    /\ pc = "start"
    /\ NonzeroSeps # {}
    /\ LET mn == Percentile0(NonzeroSeps)
           mx == Percentile100(NonzeroSeps)
           xs == [b \in 1..Len(prod) |-> XSep(b)]
       IN  /\ min_ysep' = mn
           /\ pol' = [b \in 1..Len(prod) |-> PolIndex(b)]
           /\ xindex' = xs
           /\ yindex' = [b \in 1..Len(prod) |-> RoundDiv(YSep(b), mn)]
           /\ nfeed' = NFeed(mx, mn)
           /\ nvis_1d' = NVis1d(NFeed(mx, mn))
           /\ ncyl' = NCyl(xs)
           /\ nbeam' = NBeam(NCyl(xs))
    /\ pc' = "classified"
    /\ UNCHANGED not_ringmap
    /\ UNCHANGED <<inputs, err, vdr, wgh, smp, vis_ind, coeff, rm, lfi>>

\* line 110 on an empty list: np.percentile raises IndexError (old numpy) or
\* returns NaN, and then int(np.round(NaN)) raises ValueError at line 112/117
ClassifyFail ==
    /\ pc = "start"
    /\ NonzeroSeps = {}
    /\ pc' = "failed"
    /\ \E e \in {"IndexError", "ValueError"} : err' = e
    /\ UNCHANGED not_ringmap
    /\ UNCHANGED <<inputs, pol, xindex, yindex, min_ysep, nfeed, nvis_1d, ncyl,
                   nbeam, vdr, wgh, smp, vis_ind, coeff, rm, lfi>>

\* lines 122-124: pol = np.array([x + y for x in ['X', 'Y'] for y in ['X', 'Y']]);
\* the name pol is rebound to the axis, feed_index keeps the list of indices
PolAxis ==
    LET letters == <<"X", "Y">>
    IN  [k \in 1..4 |-> letters[((k - 1) \div 2) + 1] \o letters[((k - 1) % 2) + 1]]

\* ---------------------------------------------------------------- allocation
Cells == (0..3) \X (0..(ncyl - 1)) \X (0..(nvis_1d - 1))

\* lines 126-129: np.zeros((nfreq, npol, nra, ncyl, nvis_1d))
Allocate ==
    /\ pc = "classified"
    /\ vdr' = [f \in 1..nfreq |-> [c \in Cells |-> <<0, 0>>]]
    /\ wgh' = [f \in 1..nfreq |-> [c \in Cells |-> 0]]
    /\ smp' = [f \in 1..nfreq |-> [c \in Cells |-> RatZero]]
    /\ vis_ind' = 1
    /\ pc' = "unpack"
    /\ UNCHANGED not_ringmap
    /\ UNCHANGED <<inputs, err, pol, xindex, yindex, min_ysep, nfeed, nvis_1d,
                   ncyl, nbeam, coeff, rm, lfi>>

\* ------------------------------------------------------------------ packing
\* grid[:, p, :, x, y] = values, values[f] per frequency
Put(grid, p, x, y, values) ==
    [f \in 1..nfreq |-> [grid[f] EXCEPT ![<<p, x, Slot(y, nvis_1d)>>] = values[f]]]

\* lines 136-147: the coefficient of baseline b per frequency; with an
\* unrecognised weighting the KeyError is built but not raised and w stays
\* unbound
WBound == weighting \in {"uniform", "natural", "inverse_variance"}

\* the slip of taking the weight under every scheme
WWeightOnly(scheme, b) == [f \in 1..nfreq |-> Rat(weight[f][b], 1)]

\* the slip w = vis_ind for w = self.tel.redundancy[vis_ind]
WIndexForNatural(scheme, b) ==
    [f \in 1..nfreq |->
        IF scheme = "uniform" THEN Rat(1, 1)
        ELSE IF scheme = "natural" THEN Rat(b, 1)
        ELSE Rat(weight[f][b], 1)]

\* the slip w = sstream.weight[:, 0]
WFirstBaseline(scheme, b) ==
    [f \in 1..nfreq |->
        IF scheme = "uniform" THEN Rat(1, 1)
        ELSE IF scheme = "natural" THEN Rat(redundancy[b], 1)
        ELSE Rat(weight[f][1], 1)]

W(scheme, b) ==
    [f \in 1..nfreq |->
        IF scheme = "uniform" THEN Rat(1, 1)
        ELSE IF scheme = "natural" THEN Rat(redundancy[b], 1)
        ELSE Rat(weight[f][b], 1)]

\* the slip of scaling the view w in place (w /= w)
WeightScaledInPlace(b) ==
    IF weighting = "inverse_variance"
    THEN [f \in 1..nfreq |-> [weight[f] EXCEPT ![b] = IF @ = 0 THEN 0 ELSE 1]]
    ELSE weight

\* line 144: under 'inverse_variance' w is a view of sstream.weight, not a
\* copy; lines 157-165 read it and nothing writes through it
WeightBehindView(b) == weight

VisOf(b) == [f \in 1..nfreq |-> vis[f][b]]
ConjVisOf(b) == [f \in 1..nfreq |-> Conj(vis[f][b])]
WeightOf(b) == [f \in 1..nfreq |-> weight[f][b]]

\* the slip of filling the mirror bin whatever intracyl says
IntraBranchAlways(b) == xindex[b] = 0

\* line 150
IntraBranch(b) == xindex[b] = 0 /\ intracyl

\* the grids after the statements of one iteration that run before any raise
VdrAfter(b) ==
    IF ~IndexOk(yindex[b], nvis_1d) THEN vdr
    ELSE IF IntraBranch(b) /\ IndexOk(-yindex[b], nvis_1d)
         THEN Put(Put(vdr, pol[b], xindex[b], yindex[b], VisOf(b)),
                  pol[b], xindex[b], -yindex[b], ConjVisOf(b))
         ELSE Put(vdr, pol[b], xindex[b], yindex[b], VisOf(b))

WghAfter(b) ==
    IF IntraBranch(b)
    THEN Put(Put(wgh, pol[b], xindex[b], yindex[b], WeightOf(b)),
             pol[b], xindex[b], -yindex[b], WeightOf(b))
    ELSE Put(wgh, pol[b], xindex[b], yindex[b], WeightOf(b))

SmpAfter(grid, b, w) ==
    IF IntraBranch(b)
    THEN Put(Put(grid, pol[b], xindex[b], yindex[b], w),
             pol[b], xindex[b], -yindex[b], w)
    ELSE Put(grid, pol[b], xindex[b], yindex[b], w)

\* every index of the iteration is inside the axis
IndicesOk(b) ==
    /\ IndexOk(yindex[b], nvis_1d)
    /\ IntraBranch(b) => IndexOk(-yindex[b], nvis_1d)

\* lines 132-165: one iteration of the unpacking loop
Unpack ==
    /\ pc = "unpack"
    /\ vis_ind <= Len(prod)
    /\ IndicesOk(vis_ind)
    /\ WBound
    /\ vdr' = VdrAfter(vis_ind)
    /\ wgh' = WghAfter(vis_ind)
    /\ smp' = SmpAfter(smp, vis_ind, W(weighting, vis_ind))
    /\ weight' = WeightBehindView(vis_ind)
    /\ vis_ind' = vis_ind + 1
    /\ UNCHANGED not_ringmap
    /\ UNCHANGED <<weighting, intracyl, feeds, redundancy, prod, vis, nfreq,
                   pc, err, pol, xindex, yindex, min_ysep, nfeed,
                   nvis_1d, ncyl, nbeam, coeff, rm, lfi>>

\* line 151/152/161: numpy raises IndexError for an index outside the axis;
\* the write of line 151 has happened when line 152 raises
UnpackIndexError ==
    /\ pc = "unpack"
    /\ vis_ind <= Len(prod)
    /\ ~IndicesOk(vis_ind)
    /\ vdr' = VdrAfter(vis_ind)
    /\ pc' = "failed"
    /\ err' = "IndexError"
    /\ UNCHANGED not_ringmap
    /\ UNCHANGED <<inputs, pol, xindex, yindex, min_ysep, nfeed, nvis_1d, ncyl,
                   nbeam, wgh, smp, vis_ind, coeff, rm, lfi>>

\* line 157/165: w was never bound; vdr and wgh were written before the raise
UnpackUnbound ==
    /\ pc = "unpack"
    /\ vis_ind <= Len(prod)
    /\ IndicesOk(vis_ind)
    /\ ~WBound
    /\ vdr' = VdrAfter(vis_ind)
    /\ wgh' = WghAfter(vis_ind)
    /\ pc' = "failed"
    /\ err' = "UnboundLocalError"
    /\ UNCHANGED not_ringmap
    /\ UNCHANGED <<inputs, pol, xindex, yindex, min_ysep, nfeed, nvis_1d, ncyl,
                   nbeam, smp, vis_ind, coeff, rm, lfi>>

\* ----------------------------------------------------------- normalisation
\* the slip smp[..., 0, -1] = 0.0
ZeroLastSlot(grid) ==
    [f \in 1..nfreq |->
        [c \in Cells |->
            IF c[2] = 0 /\ c[3] = nvis_1d - 1 THEN RatZero ELSE grid[f][c]]]

\* lines 167-169: smp[..., 0, 0] = 0.0
ZeroAutos(grid) ==
    [f \in 1..nfreq |->
        [c \in Cells |-> IF c[2] = 0 /\ c[3] = 0 THEN RatZero ELSE grid[f][c]]]

RemoveAutos ==
    /\ pc = "unpack"
    /\ vis_ind > Len(prod)
    /\ smp' = IF intracyl THEN ZeroAutos(smp) ELSE smp
    /\ pc' = "autos_removed"
    /\ UNCHANGED not_ringmap
    /\ UNCHANGED <<inputs, err, pol, xindex, yindex, min_ysep, nfeed, nvis_1d,
                   ncyl, nbeam, vdr, wgh, vis_ind, coeff, rm, lfi>>

\* the slip of subtracting 1 at separation 0 whatever intracyl says
CoeffUndoubled(n) ==
    [c \in 0..(n - 1) |-> IF c = 0 THEN 1 ELSE 2]

\* lines 172-173: np.full(ncyl, 2.0) with coeff[0] -= self.intracyl
Coeff(n) ==
    [c \in 0..(n - 1) |-> IF c = 0 /\ intracyl THEN 1 ELSE 2]

\* the slip of summing over the frequency axis as well (np.sum without axis)
DotSumOverFreq(cf, grid, f, p) ==
    RatSumSeq([k \in 1..(nfreq * ncyl * nvis_1d) |->
        LET g == ((k - 1) \div (ncyl * nvis_1d)) + 1
            c == ((k - 1) % (ncyl * nvis_1d)) \div nvis_1d
            y == (k - 1) % nvis_1d
        IN  RatMul(Rat(cf[c], 1), grid[g][<<p, c, y>>])])

\* np.sum(np.dot(cf, grid), axis=-1) at frequency f, polarisation p, for a
\* grid of rationals: sum over cylinder separation c and slot y of cf[c] * cell
DotSum(cf, grid, f, p) ==
    RatSumSeq([k \in 1..(ncyl * nvis_1d) |->
        LET c == (k - 1) \div nvis_1d
            y == (k - 1) % nvis_1d
        IN  RatMul(Rat(cf[c], 1), grid[f][<<p, c, y>>])])

\* the slip of summing the grid without the cylinder weighting vector
NormalizedUnweighted(cf, grid) ==
    [f \in 1..nfreq |->
        [c \in Cells |->
            RatMul(grid[f][c],
                   InvertNoZero(DotSum([x \in DOMAIN cf |-> 1], grid, f, c[1])))]]

\* line 175: smp *= invert_no_zero(sum(dot(coeff, smp)))[..., newaxis, newaxis]
Normalized(cf, grid) ==
    [f \in 1..nfreq |->
        [c \in Cells |->
            RatMul(grid[f][c], InvertNoZero(DotSum(cf, grid, f, c[1])))]]

Normalize ==
    /\ pc = "autos_removed"
    /\ coeff' = Coeff(ncyl)
    /\ smp' = Normalized(Coeff(ncyl), smp)
    /\ pc' = "normalized"
    /\ UNCHANGED not_ringmap
    /\ UNCHANGED <<inputs, err, pol, xindex, yindex, min_ysep, nfeed, nvis_1d,
                   ncyl, nbeam, vdr, wgh, vis_ind, rm, lfi>>

\* ---------------------------------------------------------------- synthesis
\* line 192 without the square root: the radicand of rm.rms at (f, p)
Rms2(f, p) ==
    DotSum(coeff,
           [g \in 1..nfreq |->
               [c \in Cells |->
                   RatMul(InvertNoZero(Rat(wgh[g][c], 1)),
                          RatMul(smp[g][c], smp[g][c]))]],
           f, p)

\* lines 178-192: the container is created with empty map and dirty beam and
\* the rms dataset is filled
CreateRingMap ==
    /\ pc = "normalized"
    /\ rm' = [beam |-> nbeam,
              pol |-> PolAxis,
              rms2 |-> [f \in 1..nfreq |-> [p \in 0..3 |-> Rms2(f, p)]],
              map |-> [f \in 1..nfreq |-> None],
              dirty_beam |-> [f \in 1..nfreq |-> None]]
    /\ lfi' = 1
    /\ pc' = "synthesize"
    /\ UNCHANGED not_ringmap
    /\ UNCHANGED <<inputs, err, pol, xindex, yindex, min_ysep, nfeed, nvis_1d,
                   ncyl, nbeam, vdr, wgh, smp, vis_ind, coeff>>

\* The model evaluates the transform of lines 204-207 where it is rational:
\* at the elevation pixel el = 0 (pa = 1 for every slot) and at beam 0, where
\* irfft(X, nbeam) * nbeam = Re X[0] + 2 * sum of Re X[c] over c >= 1.
\* the real part of np.dot(smp[lfi] * vdr[lfi], pa) at el = 0, cylinder c
ReDotVis(grid, f, p, c) ==
    RatSumSeq([k \in 1..nvis_1d |->
        RatMul(grid[f][<<p, c, k - 1>>], Rat(vdr[f][<<p, c, k - 1>>][1], 1))])

\* the real part of np.dot(smp[lfi], pa) at el = 0, cylinder c
ReDotSmp(grid, f, p, c) ==
    RatSumSeq([k \in 1..nvis_1d |-> grid[f][<<p, c, k - 1>>]])

\* np.fft.irfft(X, nbeam, axis=2) * nbeam at beam 0, X[c] given by its real part
Irfft0(X) ==
    RatSumSeq([k \in 1..ncyl |->
        RatMul(Rat(IF k = 1 THEN 1 ELSE 2, 1), X[k - 1])])

Bfm(grid, f) ==
    [p \in 0..3 |-> Irfft0([c \in 0..(ncyl - 1) |-> ReDotVis(grid, f, p, c)])]
Sb(grid, f) ==
    [p \in 0..3 |-> Irfft0([c \in 0..(ncyl - 1) |-> ReDotSmp(grid, f, p, c)])]

\* lines 195-211: one iteration of the frequency loop
Synthesize ==
    /\ pc = "synthesize"
    /\ lfi <= nfreq
    /\ rm' = [rm EXCEPT !.map[lfi] = Bfm(smp, lfi), !.dirty_beam[lfi] = Sb(smp, lfi)]
    /\ lfi' = lfi + 1
    /\ UNCHANGED not_ringmap
    /\ UNCHANGED <<inputs, pc, err, pol, xindex, yindex, min_ysep, nfeed,
                   nvis_1d, ncyl, nbeam, vdr, wgh, smp, vis_ind, coeff>>

\* line 213
Return ==
    /\ pc = "synthesize"
    /\ lfi > nfreq
    /\ pc' = "done"
    /\ UNCHANGED not_ringmap
    /\ UNCHANGED <<inputs, err, pol, xindex, yindex, min_ysep, nfeed, nvis_1d,
                   ncyl, nbeam, vdr, wgh, smp, vis_ind, coeff, rm, lfi>>

Next ==
    \/ Classify
    \/ ClassifyFail
    \/ Allocate
    \/ Unpack
    \/ UnpackIndexError
    \/ UnpackUnbound
    \/ RemoveAutos
    \/ Normalize
    \/ CreateRingMap
    \/ Synthesize
    \/ Return

Spec == Init /\ [][Next]_vars

\* process on the two-frequency inputs
SpecFreq == InitFreq /\ [][Next]_vars

\* ------------------------------------------------- hfb/io.py: BaseLoadFiles
\* an optional value: None or Some(x)
Some(x) == <<x>>

\* slice(None), slice(a, b) (its step is None, step |-> 1 here), slice(a, b, c)
\* and a list of indices
SliceAll == [kind |-> "slice_none"]
SliceOf(a, b, c) == [kind |-> "slice", start |-> a, stop |-> b, step |-> c]
ListOf(items) == [kind |-> "list", items |-> items]

\* line 64: cfreq = np.linspace(800.0, 400.0, 1024, endpoint=False); the
\* model counts frequencies in units of 1/64 MHz, where cfreq[i] = 51200 - 25 i
NChan == 1024
BandTop == 800
BandBottom == 400
CFreq(i) == (64 * BandTop) - i * ((64 * (BandTop - BandBottom)) \div NChan)

\* np.argmin(np.abs(cfreq - f)): the first index of the smallest distance
ArgMinFreq(f) ==
    LET d(i) == Abs(CFreq(i) - 64 * f)
    IN  CHOOSE i \in 0..(NChan - 1) :
            \A j \in 0..(NChan - 1) : d(i) < d(j) \/ (d(i) = d(j) /\ i <= j)

\* sorted(set(...)) of a set of integers
RECURSIVE SortedSeq(_)
SortedSeq(S) ==
    IF S = {} THEN <<>> ELSE <<SetMin(S)>> \o SortedSeq(S \ {SetMin(S)})

\* line 61: super().setup() of draco resolves the selections attribute into
\* self._sel: '<axis>_range' [a, b] becomes '<axis>_sel' slice(a, b) and
\* '<axis>_index' becomes the list; a key is absent (None) when not selected
ResolveSel(selections) ==
    [freq_sel |-> selections.freq, beam_sel |-> selections.beam]

\* what the selections attribute can ask for on one axis
AxisSelections == {None, Some(SliceOf(0, 2, 1)), Some(ListOf(<<1, 5>>))}

\* lines 52-55: the attributes of the task; an empty list is the default of
\* the two frequency attributes, None that of source_dec; beam_ew_include is
\* None or a list, and None stands for the empty list too (both are falsy)
Declinations == {None, Some(0), Some(22), Some(-10)}
EwIncludes == {None, <<0, 2>>, <<3>>}
PhysRanges == {<<>>, <<800, 795>>, <<799>>}
PhysLists == {<<>>, <<795, 800, 795>>, <<1000>>}

\* the North-South beam indices the beam model of _find_beam can return
NBeamNS == 256
NBeamAll == 1024
BeamIndices == {0, 1, NBeamNS - 1}

InitHFB ==
    /\ \E dec \in Declinations, ew \in EwIncludes, rng \in PhysRanges,
          lst \in PhysLists, fs \in AxisSelections, bs \in AxisSelections :
        loader = [pc |-> "configured",
                  source_dec |-> dec, beam_ew_include |-> ew,
                  freq_phys_range |-> rng, freq_phys_list |-> lst,
                  selections |-> [freq |-> fs, beam |-> bs],
                  sel |-> None, freq_sel |-> None, beam_sel |-> None]
    /\ IdleRingMap /\ IdleTelescope /\ IdleProcessing /\ IdleRest

\* lines 65-76
FreqSel(t, sel) ==
    IF t.freq_phys_range # <<>>
    THEN SliceOf(ArgMinFreq(t.freq_phys_range[1]),
                 ArgMinFreq(t.freq_phys_range[Len(t.freq_phys_range)]), 1)
    ELSE IF t.freq_phys_list # <<>>
    THEN ListOf(SortedSeq({ArgMinFreq(t.freq_phys_list[k]) :
                              k \in 1..Len(t.freq_phys_list)}))
    ELSE IF sel.freq_sel # None THEN sel.freq_sel[1]
    ELSE SliceAll

\* line 79: if self.source_dec: None and 0.0 are both false
DecTruthy(t) == t.source_dec # None /\ t.source_dec[1] # 0

\* lines 80-89, beam_index_ns being what _find_beam returned
BeamSel(t, sel, beam_index_ns) ==
    IF DecTruthy(t)
    THEN IF t.beam_ew_include # <<>>
         THEN ListOf([k \in 1..Len(t.beam_ew_include) |->
                         beam_index_ns + NBeamNS * t.beam_ew_include[k]])
         ELSE SliceOf(beam_index_ns, NBeamAll, NBeamNS)
    ELSE IF sel.beam_sel # None THEN sel.beam_sel[1]
    ELSE SliceAll

\* lines 57-89: BaseLoadFiles.setup
Setup ==
    /\ loader # None
    /\ loader.pc = "configured"
    /\ \E b \in BeamIndices :
        LET sel == ResolveSel(loader.selections)
        IN  loader' = [loader EXCEPT !.sel = sel,
                                     !.freq_sel = Some(FreqSel(loader, sel)),
                                     !.beam_sel = Some(BeamSel(loader, sel, b)),
                                     !.pc = "ready"]
    /\ UNCHANGED not_loader

NextHFB == Setup

SpecHFB == InitHFB /\ [][NextHFB]_vars

\* ------------------------------- pathfinder.py, core/pathfinder.py: layout
MaxInputs == 3
MaxSerial == 3

\* what tools.get_correlator_inputs returns: CHIME antennas and other inputs
\* (noise sources, blanks), each with its serial number
InputKinds == {"CHIMEAntenna", "CorrInput"}
Layouts ==
    UNION {[1..n -> [kind : InputKinds, input_sn : 1..MaxSerial]] : n \in 1..MaxInputs}

InitTelescope ==
    /\ db \in Layouts
    /\ pf = None
    /\ IdleRingMap /\ IdleLoader /\ IdleProcessing /\ IdleRest

\* pathfinder.py line 180: the CHIME antennas of a list, in list order
RECURSIVE OnlyCHIME(_)
OnlyCHIME(fs) ==
    IF fs = <<>> THEN <<>>
    ELSE IF Head(fs).kind = "CHIMEAntenna"
         THEN <<Head(fs)>> \o OnlyCHIME(Tail(fs))
         ELSE OnlyCHIME(Tail(fs))

\* pathfinder.py line 181: sorted(feeds, key=lambda feed: feed.input_sn), a
\* stable sort: the first feed of the smallest serial number comes first
RECURSIVE SortedBySerial(_)
SortedBySerial(fs) ==
    IF fs = <<>> THEN <<>>
    ELSE LET m == SetMin({fs[k].input_sn : k \in 1..Len(fs)})
             i == SetMin({k \in 1..Len(fs) : fs[k].input_sn = m})
         IN  <<fs[i]>> \o SortedBySerial([k \in 1..(Len(fs) - 1) |->
                                            IF k < i THEN fs[k] ELSE fs[k + 1]])

\* pathfinder.py lines 165-183: load_layout of the telescope t; the
\* exception leaves from_layout without a telescope to return
LoadLayout(t) ==
    IF t.layout = None
    THEN [t EXCEPT !.err = "Layout attributes not set."]
    ELSE IF ~t.skip_non_chime
    THEN [t EXCEPT !.err = "Not supported."]
    ELSE [t EXCEPT !.feeds = Some(SortedBySerial(OnlyCHIME(db))), !.returned = TRUE]

\* core/pathfinder.py lines 129-147: _load_layout
LoadLayoutCore(t) ==
    IF t.layout = None
    THEN [t EXCEPT !.err = "Layout attributes not set."]
    ELSE IF t.skip_non_chime
    THEN [t EXCEPT !.err = "Not supported."]
    ELSE [t EXCEPT !.feeds = Some(db), !.returned = TRUE]

\* lines 161-163 / 97-98 and the attributes from_layout sets: feeds is the
\* attribute _feeds
NewTelescope(impl, layout, skip) ==
    [impl |-> impl, layout |-> layout, correlator |-> None,
     skip_non_chime |-> skip, feeds |-> None, returned |-> FALSE, err |-> "none"]

\* pathfinder.py lines 185-212: CHIMEPathfinder.from_layout(layout, skip=skip)
FromLayout ==
    /\ db # None /\ pf = None
    /\ \E layout \in {None, Some(1)}, skip \in BOOLEAN :
        pf' = LoadLayout(NewTelescope("pathfinder", layout, skip))
    /\ UNCHANGED db
    /\ UNCHANGED not_telescope

\* core/pathfinder.py lines 100-127
FromLayoutCore ==
    /\ db # None /\ pf = None
    /\ \E layout \in {None, Some(1)}, skip \in BOOLEAN :
        pf' = LoadLayoutCore(NewTelescope("core.pathfinder", layout, skip))
    /\ UNCHANGED db
    /\ UNCHANGED not_telescope

NextTelescope == FromLayout \/ FromLayoutCore

SpecTelescope == InitTelescope /\ [][NextTelescope]_vars

\* ------------------------------------------ processing/base.py: generate
MaxTags == 3
MaxJobs == 3

\* the tags of one processing type and revision, in sorted order
Tags == 1..MaxTags

\* what a tag can be when generate is called: not available, available and
\* untouched, already output under the base path, or in the slurm queue
\* pending (PD), running (R) or completing (CG)
TagStates == {"unavailable", "available", "output", "PD", "R", "CG"}

\* squeue lists the jobs of the tags in the queue
RECURSIVE JobsOf(_, _)
JobsOf(st, t) ==
    IF t > MaxTags THEN <<>>
    ELSE IF st[t] \in {"PD", "R", "CG"}
         THEN <<[tag |-> t, st |-> st[t]]>> \o JobsOf(st, t + 1)
         ELSE JobsOf(st, t + 1)

InitProcessing ==
    /\ python3 \in BOOLEAN
    /\ \E st \in [Tags -> TagStates] :
        /\ avail = {t \in Tags : st[t] # "unavailable"}
        /\ outputs = {t \in Tags : st[t] = "output"}
        /\ jobs = JobsOf(st, 1)
    /\ gen = None
    /\ IdleRingMap /\ IdleLoader /\ IdleTelescope /\ IdleRest

\* lines 140-143: the tags of the jobs in state s
TagsInState(s) == {jobs[k].tag : k \in {j \in 1..Len(jobs) : jobs[j].st = s}}

\* pending()[:max]: a Python slice, a negative max counting from the end
Take(seq, n) ==
    IF n >= 0 THEN SubSeq(seq, 1, IF n < Len(seq) THEN n ELSE Len(seq))
    ELSE SubSeq(seq, 1, IF Len(seq) + n > 0 THEN Len(seq) + n ELSE 0)

\* lines 200, 211, 219 and 126-145: generate(max, submit) is called and
\* pending() reads the queue through queued()
GenerateQueued ==
    /\ gen = None
    /\ \E max \in 0..MaxJobs, submit \in BOOLEAN :
        gen' = [pc |-> "queued", max |-> max, submit |-> submit,
                waiting |-> TagsInState("PD"), running |-> TagsInState("R"),
                to_run |-> <<>>, i |-> 0, invoked |-> <<>>, err |-> "none"]
    /\ UNCHANGED <<python3, avail, outputs, jobs>>
    /\ UNCHANGED not_processing

\* lines 220-222 and 211: available() and ls() are read, the pending tags
\* sorted and cut to max
GeneratePending ==
    /\ gen # None /\ gen.pc = "queued"
    /\ gen' = [gen EXCEPT
                  !.to_run = Take(SortedSeq(avail \ (outputs \cup gen.waiting
                                                              \cup gen.running)),
                                  gen.max),
                  !.i = 1,
                  !.pc = "loop"]
    /\ UNCHANGED <<python3, avail, outputs, jobs>>
    /\ UNCHANGED not_processing

\* lines 213-214 and 225-240: queue_job for the next tag.  Line 231 opens the
\* temporary file in mode "w+r", which Python 3 rejects with ValueError and
\* Python 2 accepts; then caput-pipeline queue puts the job into the queue
\* unless --nosubmit
QueueJob ==
    /\ gen # None /\ gen.pc = "loop" /\ gen.i <= Len(gen.to_run)
    /\ IF python3
       THEN /\ gen' = [gen EXCEPT !.invoked = Append(@, gen.to_run[gen.i]),
                                   !.pc = "raised", !.err = "ValueError"]
            /\ jobs' = jobs
       ELSE /\ gen' = [gen EXCEPT !.invoked = Append(@, gen.to_run[gen.i]),
                                   !.i = @ + 1]
            /\ jobs' = IF gen.submit
                       THEN Append(jobs, [tag |-> gen.to_run[gen.i], st |-> "PD"])
                       ELSE jobs
    /\ UNCHANGED <<python3, avail, outputs>>
    /\ UNCHANGED not_processing

\* the loop of lines 213-214 is exhausted and generate returns
GenerateReturn ==
    /\ gen # None /\ gen.pc = "loop" /\ gen.i > Len(gen.to_run)
    /\ gen' = [gen EXCEPT !.pc = "returned"]
    /\ UNCHANGED <<python3, avail, outputs, jobs>>
    /\ UNCHANGED not_processing

\* slurm: a pending job starts, a running job completes, a completing job
\* leaves the queue with its output under the base path
JobStarts ==
    /\ \E k \in 1..Len(jobs) :
        /\ jobs[k].st = "PD"
        /\ jobs' = [jobs EXCEPT ![k].st = "R"]
    /\ UNCHANGED <<python3, avail, outputs, gen>>
    /\ UNCHANGED not_processing

JobCompletes ==
    /\ \E k \in 1..Len(jobs) :
        /\ jobs[k].st = "R"
        /\ jobs' = [jobs EXCEPT ![k].st = "CG"]
    /\ UNCHANGED <<python3, avail, outputs, gen>>
    /\ UNCHANGED not_processing

JobEnds ==
    /\ \E k \in 1..Len(jobs) :
        /\ jobs[k].st = "CG"
        /\ jobs' = [j \in 1..(Len(jobs) - 1) |-> IF j < k THEN jobs[j] ELSE jobs[j + 1]]
        /\ outputs' = outputs \cup {jobs[k].tag}
    /\ UNCHANGED <<python3, avail, gen>>
    /\ UNCHANGED not_processing

NextProcessing ==
    \/ GenerateQueued
    \/ GeneratePending
    \/ QueueJob
    \/ GenerateReturn
    \/ JobStarts
    \/ JobCompletes
    \/ JobEnds

SpecProcessing == InitProcessing /\ [][NextProcessing]_vars

\* ------------------------- processing/base.py: concurrent generate calls
\* two generate calls on the same type and revision, e.g. from two shells
Callers == {1, 2}

\* the states of the tags when the calls are made; the tags above MaxShared
\* are not available
StartStates == {"unavailable", "available", "output", "PD"}
MaxShared == 2

InitConcurrent ==
    /\ python3 \in BOOLEAN
    /\ \E st \in [Tags -> StartStates] :
        /\ \A t \in Tags : t > MaxShared => st[t] = "unavailable"
        /\ avail = {t \in Tags : st[t] # "unavailable"}
        /\ outputs = {t \in Tags : st[t] = "output"}
        /\ jobs = JobsOf(st, 1)
    /\ callers = [c \in Callers |-> None]
    /\ gen = None
    /\ IdleRingMap /\ IdleLoader /\ IdleTelescope /\ IdleRevisions /\ IdleTask

\* lines 200, 211, 219 and 126-145: caller c enters generate and reads the
\* queue through queued()
CallerQueued(c) ==
    /\ callers[c] = None
    /\ \E max \in 1..MaxShared, submit \in BOOLEAN :
        callers' = [callers EXCEPT ![c] =
            [pc |-> "queued", max |-> max, submit |-> submit,
             waiting |-> TagsInState("PD"), running |-> TagsInState("R"),
             to_run |-> <<>>, i |-> 0, invoked |-> <<>>, err |-> "none"]]
    /\ jobs' = jobs
    /\ UNCHANGED not_callers

\* lines 220-222 and 211 for caller c
CallerPending(c) ==
    /\ callers[c] # None /\ callers[c].pc = "queued"
    /\ callers' = [callers EXCEPT ![c] =
            [@ EXCEPT
                !.to_run = Take(SortedSeq(avail \ (outputs
                                                     \cup callers[c].waiting
                                                     \cup callers[c].running)),
                                callers[c].max),
                !.i = 1,
                !.pc = "loop"]]
    /\ jobs' = jobs
    /\ UNCHANGED not_callers

\* lines 213-214 and 225-240 for caller c
CallerQueueJob(c) ==
    /\ callers[c] # None /\ callers[c].pc = "loop"
    /\ callers[c].i <= Len(callers[c].to_run)
    /\ LET tag == callers[c].to_run[callers[c].i]
       IN  IF python3
           THEN /\ callers' = [callers EXCEPT ![c] =
                       [@ EXCEPT !.invoked = Append(@, tag),
                                 !.pc = "raised", !.err = "ValueError"]]
                /\ jobs' = jobs
           ELSE /\ callers' = [callers EXCEPT ![c] =
                       [@ EXCEPT !.invoked = Append(@, tag), !.i = @ + 1]]
                /\ jobs' = IF callers[c].submit
                           THEN Append(jobs, [tag |-> tag, st |-> "PD"])
                           ELSE jobs
    /\ UNCHANGED not_callers

\* the loop of caller c is exhausted and its generate returns
CallerReturn(c) ==
    /\ callers[c] # None /\ callers[c].pc = "loop"
    /\ callers[c].i > Len(callers[c].to_run)
    /\ callers' = [callers EXCEPT ![c] = [@ EXCEPT !.pc = "returned"]]
    /\ jobs' = jobs
    /\ UNCHANGED not_callers

NextConcurrent ==
    \/ \E c \in Callers : CallerQueued(c)
    \/ \E c \in Callers : CallerPending(c)
    \/ \E c \in Callers : CallerQueueJob(c)
    \/ \E c \in Callers : CallerReturn(c)
    \/ JobStarts
    \/ JobCompletes
    \/ JobEnds

SpecConcurrent == InitConcurrent /\ [][NextConcurrent]_vars

\* ----------------------------------------- processing/base.py: revisions
\* A directory entry "rev_<digits>" is the sequence of its digits.
\* line 104: the regular expression ^rev_\d{2}$ asks for two digits
RevWidth == 2

\* line 117: the format %02i pads to two digits
PadWidth == 2

\* the decimal digits of n, most significant first
RECURSIVE Digits(_)
Digits(n) == IF n < 10 THEN <<n>> ELSE Digits(n \div 10) \o <<n % 10>>

\* "rev_%02i" % n
RECURSIVE ZeroPad(_, _)
ZeroPad(d, w) == IF Len(d) >= w THEN d ELSE ZeroPad(<<0>> \o d, w)
RevName(n) == ZeroPad(Digits(n), PadWidth)

\* int(name.split("_")[-1])
RECURSIVE ParseInt(_)
ParseInt(d) ==
    IF d = <<>> THEN 0 ELSE 10 * ParseInt(SubSeq(d, 1, Len(d) - 1)) + d[Len(d)]

\* rev_regex.match(name)
RevMatch(d) == Len(d) = RevWidth

\* the order of sorted() on the names: character by character, a proper
\* prefix first
RECURSIVE NameLess(_, _)
NameLess(a, b) ==
    IF a = <<>> THEN b # <<>>
    ELSE IF b = <<>> THEN FALSE
    ELSE IF a[1] # b[1] THEN a[1] < b[1]
    ELSE NameLess(Tail(a), Tail(b))

RECURSIVE SortedNames(_)
SortedNames(S) ==
    IF S = {} THEN <<>>
    ELSE LET m == CHOOSE x \in S : \A y \in S \ {x} : NameLess(x, y)
         IN  <<m>> \o SortedNames(S \ {m})

\* lines 92-108
LsRev(dir) == SortedNames({d \in dir : RevMatch(d)})

\* lines 113-119: the name create_rev chooses
NewRev(dir) ==
    LET revisions == LsRev(dir)
    IN  IF revisions # <<>>
        THEN RevName(ParseInt(revisions[Len(revisions)]) + 1)
        ELSE RevName(0)

\* the revisions found when the first call is made, and the number of
\* entries the directory is let grow to
StartRevisions == {0, 1, 2, 97, 98, 99}
MaxRevisions == 5

InitRevisions ==
    /\ revdir \in SUBSET {RevName(n) : n \in StartRevisions}
    /\ made = None
    /\ IdleRingMap /\ IdleLoader /\ IdleTelescope /\ IdleProcessing
    /\ IdleTask /\ IdleCallers

\* lines 110-124: mkdir(parents=True) raises FileExistsError when the
\* directory is there; otherwise the instance of the new revision is returned
CreateRev ==
    /\ Cardinality(revdir) < MaxRevisions
    /\ IF NewRev(revdir) \in revdir
       THEN /\ made' = [op |-> "create_rev", rev |-> None, err |-> "FileExistsError"]
            /\ revdir' = revdir
       ELSE /\ revdir' = revdir \cup {NewRev(revdir)}
            /\ made' = [op |-> "create_rev", rev |-> Some(NewRev(revdir)),
                        err |-> "none"]
    /\ UNCHANGED not_revisions

\* lines 182-198: the revision latest() returns, None when it raises
LatestRev(dir) ==
    IF LsRev(dir) = <<>> THEN None ELSE Some(LsRev(dir)[Len(LsRev(dir))])

Latest ==
    /\ made' = [op |-> "latest", rev |-> LatestRev(revdir),
                err |-> IF LatestRev(revdir) = None THEN "RuntimeError" ELSE "none"]
    /\ revdir' = revdir
    /\ UNCHANGED not_revisions

NextRevisions == CreateRev \/ Latest

SpecRevisions == InitRevisions /\ [][NextRevisions]_vars

\* --------------------------------------- hfb/io.py: LoadFilesFromParams
MaxGroups == 3
MaxCalls == 5

\* a time range given in the parameters
GivenRange == <<1673156146, 1673157946>>

\* a file group of the parameters: its tag stands for its list of files,
\* which all exist or not; 'time_range' is an optional key
FileGroups ==
    [tag : 1..MaxGroups, exists : BOOLEAN, time_range : {None, Some(GivenRange)}]

\* line 189: _fgroup_ptr = 0
InitFilegroups ==
    /\ \E n \in 0..MaxGroups :
        \E fg \in [1..n -> FileGroups] :
            /\ \A k \in 1..n : fg[k].tag = k
            /\ task = [filegroups |-> fg, fgroup_ptr |-> 0, loads |-> <<>>,
                       calls |-> 0, result |-> "none"]
    /\ IdleRingMap /\ IdleLoader /\ IdleTelescope /\ IdleProcessing
    /\ IdleRevisions /\ IdleCallers

\* lines 201-202
ProcessStop ==
    /\ task.calls < MaxCalls
    /\ Len(task.filegroups) = task.fgroup_ptr
    /\ task' = [task EXCEPT !.calls = @ + 1, !.result = "PipelineStopIteration"]
    /\ UNCHANGED not_task

\* the slip of advancing the pointer once the group was loaded
PtrAfterGoodLoad(ptr, exists) == IF exists THEN ptr + 1 ELSE ptr

\* line 209: the increment stands before the load of line 219
PtrAfterLoad(ptr, exists) == ptr + 1

\* lines 211-212: the key is added to the file group of the list
WithTimeRange(fg) ==
    IF fg.time_range = None THEN [fg EXCEPT !.time_range = Some(<<None, None>>)]
    ELSE fg

\* lines 204-222 and 125-163: the group at the pointer is fetched, the pointer
\* moves, _load_filelist is called with the files and the time range; it
\* raises RuntimeError when a file does not exist, else returns the container
ProcessLoad(outcome) ==
    /\ task.calls < MaxCalls
    /\ Len(task.filegroups) # task.fgroup_ptr
    /\ task.fgroup_ptr + 1 \in DOMAIN task.filegroups
    /\ LET filegroup == WithTimeRange(task.filegroups[task.fgroup_ptr + 1])
       IN  /\ outcome = (IF filegroup.exists THEN "returned" ELSE "RuntimeError")
           /\ task' = [task EXCEPT
                   !.filegroups[task.fgroup_ptr + 1] = filegroup,
                   !.fgroup_ptr = PtrAfterLoad(@, filegroup.exists),
                   !.loads = Append(@, [files |-> filegroup.tag,
                                        time_range |-> filegroup.time_range[1]]),
                   !.calls = @ + 1,
                   !.result = outcome]
    /\ UNCHANGED not_task

ProcessReturns == ProcessLoad("returned")
ProcessRaises == ProcessLoad("RuntimeError")

NextFilegroups == ProcessStop \/ ProcessReturns \/ ProcessRaises

SpecFilegroups == InitFilegroups /\ [][NextFilegroups]_vars

\* ------------------------------------------------------------------ replay
\* TLC keeps a function expression unevaluated and evaluates it anew at every
\* application until it has been compared: g = g makes it a value
Stored(g) == IF g = g THEN g ELSE g

\* the coefficient grid process builds from the same input under a weighting
\* scheme: the unpacking loop, the removal of the auto-correlations and the
\* normalisation, applied in the order of the code
RECURSIVE UnpackedSmp(_, _, _)
UnpackedSmp(scheme, grid, b) ==
    IF b > Len(prod) THEN grid
    ELSE LET g == SmpAfter(grid, b, W(scheme, b))
         IN  IF g = g THEN UnpackedSmp(scheme, g, b + 1) ELSE grid

PackedSmp(scheme) ==
    LET g == UnpackedSmp(scheme, [f \in 1..nfreq |-> [c \in Cells |-> RatZero]], 1)
    IN  Stored(IF intracyl THEN ZeroAutos(g) ELSE g)

FinalSmp(scheme) == Stored(Normalized(Coeff(ncyl), PackedSmp(scheme)))

\* ------------------------------------------------------------------- claims
Packed == pc \in {"autos_removed", "normalized", "synthesize", "done"}
Pols == 0..3
Freqs == 1..nfreq
Baselines == 1..Len(prod)

\* process on the dataset restricted to one frequency, as a function of the
\* visibilities vs and the weights ws of that frequency alone (one value per
\* baseline) and of the geometry: lines 126-165, the grid of one frequency
\* after the unpacking loop wrote vals at the own bin and mirror at the
\* opposite bin of every baseline from b on
RECURSIVE SlicePacked(_, _, _, _)
SlicePacked(g, vals, mirror, b) ==
    IF b > Len(prod) THEN g
    ELSE LET far == <<pol[b], xindex[b], Slot(-yindex[b], nvis_1d)>>
             own == <<pol[b], xindex[b], Slot(yindex[b], nvis_1d)>>
             h == IF IntraBranch(b)
                  THEN [[g EXCEPT ![own] = vals[b]] EXCEPT ![far] = mirror[b]]
                  ELSE [g EXCEPT ![own] = vals[b]]
         IN  IF h = h THEN SlicePacked(h, vals, mirror, b + 1) ELSE g

SliceVdr(vs) ==
    SlicePacked([c \in Cells |-> <<0, 0>>], vs, [b \in Baselines |-> Conj(vs[b])], 1)

SliceWgh(ws) == SlicePacked([c \in Cells |-> 0], ws, ws, 1)

\* lines 136-144
SliceW(ws) ==
    [b \in Baselines |->
        IF weighting = "uniform" THEN Rat(1, 1)
        ELSE IF weighting = "natural" THEN Rat(redundancy[b], 1)
        ELSE Rat(ws[b], 1)]

\* np.sum(np.dot(cf, g), axis=-1) of one frequency at polarisation p
SliceSum(cf, g, p) ==
    RatSumSeq([k \in 1..(ncyl * nvis_1d) |->
        RatMul(Rat(cf[(k - 1) \div nvis_1d], 1),
               g[<<p, (k - 1) \div nvis_1d, (k - 1) % nvis_1d>>])])

\* lines 157-175
SliceSmp(ws) ==
    LET g == SlicePacked([c \in Cells |-> RatZero], SliceW(ws), SliceW(ws), 1)
        h == Stored([c \in Cells |->
                IF intracyl /\ c[2] = 0 /\ c[3] = 0 THEN RatZero ELSE g[c]])
    IN  Stored([c \in Cells |->
            RatMul(h[c], InvertNoZero(SliceSum(Coeff(ncyl), h, c[1])))])

\* line 192, the radicand
SliceRms2(ws) ==
    LET s == SliceSmp(ws)
        w == SliceWgh(ws)
        g == Stored([c \in Cells |->
                RatMul(InvertNoZero(Rat(w[c], 1)), RatMul(s[c], s[c]))])
    IN  [p \in 0..3 |-> SliceSum(Coeff(ncyl), g, p)]

\* lines 206-207 at el = 0 and beam 0
SliceMap(vs, ws) ==
    LET s == SliceSmp(ws)
        v == SliceVdr(vs)
        g == Stored([c \in Cells |-> RatMul(s[c], Rat(v[c][1], 1))])
    IN  [p \in 0..3 |->
            SliceSum([c \in 0..(ncyl - 1) |-> IF c = 0 THEN 1 ELSE 2], g, p)]

SliceBeam(ws) ==
    LET s == SliceSmp(ws)
    IN  [p \in 0..3 |->
            SliceSum([c \in 0..(ncyl - 1) |-> IF c = 0 THEN 1 ELSE 2], s, p)]

\* C1: whenever intracyl is set, once all baselines are packed and the
\* auto-correlations removed, the coefficient at cylinder separation 0 and
\* row-separation bin 0 is exactly 0 at every frequency and polarisation.
ZeroSpacingExcluded ==
    (intracyl /\ Packed) =>
        \A f \in Freqs : \A p \in Pols : smp[f][<<p, 0, 0>>] = RatZero

\* an auto-correlation with a nonzero coefficient was packed into that cell
ZeroSpacingWitness ==
    /\ intracyl
    /\ pc = "autos_removed"
    /\ \E b \in Baselines :
        /\ xindex[b] = 0 /\ yindex[b] = 0
        /\ W(weighting, b)[1] # RatZero
        /\ vdr[1][<<pol[b], 0, 0>>] # <<0, 0>>

\* the unpacking loop has run over every product; nothing was zeroed yet
UnpackFinished == pc = "unpack" /\ vis_ind > Len(prod)

\* C2: for every intra-cylinder baseline with visibility v and bin k, once
\* packing has finished the visibility grid holds conj(v) at bin -k, and the
\* weight grid and the coefficient grid hold equal values at bins +k and -k.
ConjugateFill ==
    UnpackFinished =>
        \A b \in Baselines : IntraBranch(b) =>
            \A f \in Freqs :
                LET plus == <<pol[b], 0, Slot(yindex[b], nvis_1d)>>
                    minus == <<pol[b], 0, Slot(-yindex[b], nvis_1d)>>
                IN  /\ vdr[f][minus] = Conj(vis[f][b])
                    /\ wgh[f][plus] = wgh[f][minus]
                    /\ smp[f][plus] = smp[f][minus]

\* C3: with an unrecognised weighting no grid is ever allocated, no value of
\* the input is copied and no RingMap is built.
ConfigErrorBeforeData ==
    ~WBound => (vdr = None /\ wgh = None /\ smp = None /\ rm = None)

AllZeroSep == \A b \in Baselines : YSep(b) = 0

CellsOf(p) == {c \in Cells : c[1] = p}

BaselinesOf(p) == {b \in Baselines : pol[b] = p}

Schemes == {"uniform", "natural", "inverse_variance"}
UnitRedundancy == \A b \in Baselines : redundancy[b] = 1
CommonWeight(w) == \A f \in Freqs : \A b \in Baselines : weight[f][b] = w

\* the run agrees with the run of every scheme on the same input
SameAsEveryScheme ==
    \A s \in Schemes :
        /\ smp = FinalSmp(s)
        /\ \A f \in Freqs :
            /\ rm.map[f] = Bfm(FinalSmp(s), f)
            /\ rm.dirty_beam[f] = Sb(FinalSmp(s), f)

IsGrid(l) ==
    /\ feeds = Feeds(l.rows, l.cyls, 1, 1)
    /\ \E k \in {0, 1} : prod = UpperTriangle(l.rows * l.cyls, k)

\* C8: for R >= 2 equally spaced row positions on each of C cylinders with
\* all pairs present, the classifier derives nfeed = R, nvis_1d = 2R - 1,
\* ncyl = C, nbeam = 2C - 1, and process does not fail.
GridDimensions ==
    \A l \in GridLayouts : (IsGrid(l) /\ l.rows >= 2 /\ WBound) =>
        /\ pc # "start" =>
            /\ nfeed = l.rows
            /\ nvis_1d = 2 * l.rows - 1
            /\ ncyl = l.cyls
            /\ nbeam = 2 * l.cyls - 1
        /\ pc # "failed"

\* C9: every row-separation bin of the classifier lies in
\* [-(nfeed - 1), nfeed - 1] and every cylinder-separation index in
\* [0, ncyl), so every write of the unpacking loop is inside the grid.
IndexRange ==
    yindex # None =>
        /\ \A b \in Baselines :
            /\ -(nfeed - 1) <= yindex[b] /\ yindex[b] <= nfeed - 1
            /\ 0 <= xindex[b] /\ xindex[b] < ncyl
        /\ err # "IndexError"

\* the accumulated input weight of the pixel is zero over all grid cells
WeightZero(f, p) == \A c \in CellsOf(p) : wgh[f][c] = 0

\* the pixel is blank: zero coefficients, zero map and zero dirty beam
Blank(f, p) ==
    /\ \A c \in CellsOf(p) : smp[f][c] = RatZero
    /\ rm.map[f][p] = RatZero
    /\ rm.dirty_beam[f][p] = RatZero

OwnCell(b) == <<pol[b], xindex[b], Slot(yindex[b], nvis_1d)>>

\* an iteration of the unpacking loop that ran to its end
UnpackStep == pc = "unpack" /\ vis_ind' = vis_ind + 1

\* C11: the sample coefficient an iteration of the unpacking loop writes for
\* baseline b is 1 under 'uniform', the redundancy count of b under 'natural'
\* and the weight of b at each frequency under 'inverse_variance'; it is a
\* function of the data of b alone.
CoefficientSelection ==
    [][UnpackStep =>
        \A f \in Freqs :
            smp'[f][OwnCell(vis_ind)] =
                CASE weighting = "uniform" -> RatOne
                  [] weighting = "natural" -> Rat(redundancy[vis_ind], 1)
                  [] weighting = "inverse_variance" -> Rat(weight[f][vis_ind], 1)]_vars

\* the second of two baselines of different weight and redundancy was packed
\* under a scheme that reads them
CoefficientSelectionWitness ==
    /\ pc = "unpack" /\ vis_ind = 3
    /\ weighting \in {"natural", "inverse_variance"}
    /\ weight[1][1] # weight[1][2]
    /\ weighting = "natural" => redundancy[1] # redundancy[2]
    /\ smp[1][OwnCell(2)] = W(weighting, 2)[1]
    /\ smp[1][OwnCell(2)] # W(weighting, 1)[1]

\* the feed carries the second polarisation of the pair
Second(fd) == IF fd.pol = "S" THEN 1 ELSE 0
Letter(fd) == IF fd.pol = "S" THEN "Y" ELSE "X"

\* C12: for every baseline (i, j) the polarisation index is
\* 2 * [feed i is second polarisation] + [feed j is second polarisation], one
\* of 0..3, and selects the label of the pair on the output axis
\* XX, XY, YX, YY.
PolarizationIndex ==
    pol # None =>
        \A b \in Baselines :
            LET fi == feeds[prod[b][1]]
                fj == feeds[prod[b][2]]
            IN  /\ pol[b] = 2 * Second(fi) + Second(fj)
                /\ pol[b] \in 0..3
                /\ rm # None =>
                    /\ rm.pol = <<"XX", "XY", "YX", "YY">>
                    /\ rm.pol[pol[b] + 1] = Letter(fi) \o Letter(fj)

\* a run returned a map of a first/second pair and of the swapped pair
PolarizationIndexWitness ==
    /\ pc = "done"
    /\ \E b \in Baselines : pol[b] = 1 /\ rm.pol[pol[b] + 1] = "XY"
    /\ \E b \in Baselines : pol[b] = 2 /\ rm.pol[pol[b] + 1] = "YX"

\* C13: no step of process changes the input visibilities, the input
\* weights, the product list or the feed descriptors (nor the redundancies
\* and the configuration), whether process returns or fails.
InputsNeverChange == [][inputs' = inputs]_vars

\* an inverse-variance run with conjugate fill returned
InputsNeverChangeWitness ==
    /\ pc = "done" /\ weighting = "inverse_variance" /\ intracyl
    /\ \E b \in Baselines :
        /\ IntraBranch(b) /\ yindex[b] # 0 /\ weight[1][b] > 1
        /\ vdr[1][<<pol[b], 0, Slot(-yindex[b], nvis_1d)>>] = Conj(vis[1][b])
        /\ vis[1][b][2] # 0

\* the outputs of frequency f are those of the run on frequency f alone
SliceOutputs ==
    pc = "done" =>
        \A f \in Freqs :
            /\ rm.map[f] = SliceMap(vis[f], weight[f])
            /\ rm.dirty_beam[f] = SliceBeam(weight[f])
            /\ rm.rms2[f] = SliceRms2(weight[f])

\* an iteration of the frequency loop writes the output slice of its own
\* frequency and nothing else
SynthesisFrame ==
    (pc = "synthesize" /\ lfi' = lfi + 1) =>
        /\ \A g \in Freqs \ {lfi} :
            /\ rm'.map[g] = rm.map[g]
            /\ rm'.dirty_beam[g] = rm.dirty_beam[g]
        /\ rm'.rms2 = rm.rms2
        /\ vdr' = vdr /\ wgh' = wgh /\ smp' = smp

\* C14: the map, the dirty beam and the rms of frequency f are a function of
\* the visibilities and the weights of frequency f alone (and of geometry and
\* configuration): they equal the outputs of process on the dataset
\* restricted to f, whatever the other frequencies hold; an iteration of the
\* synthesis loop writes only the output slice of its own frequency and
\* leaves vdr, wgh and smp unchanged.
FrequencyIndependence == []SliceOutputs /\ [][SynthesisFrame]_vars

\* an inverse-variance run over two frequencies of different weights and
\* visibilities returned different maps, beams and rms for them
FrequencyIndependenceWitness ==
    /\ pc = "done" /\ nfreq = 2 /\ weighting = "inverse_variance"
    /\ weight[1] # weight[2]
    /\ \E p \in Pols :
        /\ rm.map[1][p] # rm.map[2][p]
        /\ rm.map[2][p] # RatZero
        /\ rm.rms2[1][p] # rm.rms2[2][p]
    /\ \E p \in Pols : rm.dirty_beam[1][p] # RatZero

\* the cell at the opposite bin of baseline b
MirrorCell(b) == <<pol[b], xindex[b], Slot(-yindex[b], nvis_1d)>>

\* the baselines that write cell c at their own bin, and those that write it
\* as the mirror of their own bin
OwnWriters(c) == {b \in Baselines : OwnCell(b) = c}
MirrorWriters(c) ==
    {b \in Baselines : IntraBranch(b) /\ MirrorCell(b) = c /\ MirrorCell(b) # OwnCell(b)}

\* the sum of val[b] over the baselines of S
RECURSIVE SumOver(_, _)
SumOver(S, val) ==
    IF S = {} THEN 0
    ELSE LET b == CHOOSE x \in S : TRUE IN val[b] + SumOver(S \ {b}, val)

\* C15: when two or more baselines map to the same grid cell, the cell's
\* visibility, weight and sample coefficient after packing are the sums of
\* the contributions of all those baselines (the conjugate for a mirror
\* write), so that no contribution is lost.
Accumulation ==
    (UnpackFinished /\ WBound) =>
        \A f \in Freqs : \A c \in Cells :
            LET own == OwnWriters(c)
                far == MirrorWriters(c)
                all == own \cup far
            IN  Cardinality(own) + Cardinality(far) >= 2 =>
                    /\ vdr[f][c][1] = SumOver(all, [b \in Baselines |-> vis[f][b][1]])
                    /\ vdr[f][c][2] =
                          SumOver(own, [b \in Baselines |-> vis[f][b][2]])
                            - SumOver(far, [b \in Baselines |-> vis[f][b][2]])
                    /\ wgh[f][c] = SumOver(all, [b \in Baselines |-> weight[f][b]])
                    /\ smp[f][c] =
                          Rat(SumOver(all, [b \in Baselines |->
                                  W(weighting, b)[f][1]]), 1)

\* the source_dec attribute was given
DecGiven(t) == t.source_dec # None

\* the selections a given declination can lead to
FromDeclination(t) ==
    {SliceOf(b, NBeamAll, NBeamNS) : b \in 0..(NBeamNS - 1)}
        \cup {ListOf([k \in 1..Len(t.beam_ew_include) |->
                        b + NBeamNS * t.beam_ew_include[k]]) :
                  b \in 0..(NBeamNS - 1)}

\* the selection of the selections attribute on one axis, slice(None) without
FromSelections(x) == IF x # None THEN x[1] ELSE SliceAll

\* C16: after BaseLoadFiles.setup the frequency selection comes from
\* freq_phys_range when it is given, else from freq_phys_list when it is
\* given, else from the selections, else is slice(None); the beam selection
\* comes from source_dec whenever it is given, whatever its value (0.0
\* included), else from the selections, else is slice(None).
SelectionPrecedence ==
    (loader # None /\ loader.pc = "ready") =>
        LET t == loader
            fsel == t.freq_sel[1]
            bsel == t.beam_sel[1]
        IN  /\ t.freq_phys_range # <<>> =>
                /\ fsel.kind = "slice"
                /\ fsel.start = ArgMinFreq(t.freq_phys_range[1])
                /\ fsel.stop = ArgMinFreq(t.freq_phys_range[Len(t.freq_phys_range)])
            /\ (t.freq_phys_range = <<>> /\ t.freq_phys_list # <<>>) =>
                /\ fsel.kind = "list"
                /\ {fsel.items[k] : k \in 1..Len(fsel.items)} =
                      {ArgMinFreq(t.freq_phys_list[k]) : k \in 1..Len(t.freq_phys_list)}
            /\ (t.freq_phys_range = <<>> /\ t.freq_phys_list = <<>>) =>
                fsel = FromSelections(t.selections.freq)
            /\ DecGiven(t) => bsel \in FromDeclination(t)
            /\ ~DecGiven(t) => bsel = FromSelections(t.selections.beam)

\* C17: from_layout with skip=True returns a telescope whose feed list holds
\* no non-CHIME input, and with skip=False raises and leaves the feed list
\* unset, in both implementations of CHIMEPathfinder.
SkipNonChime ==
    (pf # None /\ pf.layout # None) =>
        /\ pf.skip_non_chime =>
            /\ pf.returned /\ pf.err = "none"
            /\ pf.feeds # None
            /\ \A k \in 1..Len(pf.feeds[1]) : pf.feeds[1][k].kind = "CHIMEAntenna"
        /\ ~pf.skip_non_chime =>
            /\ ~pf.returned /\ pf.err # "none"
            /\ pf.feeds = None

\* the first n elements of a sequence, all of it when it is shorter
FirstN(seq, n) == [k \in 1..(IF n < Len(seq) THEN n ELSE Len(seq)) |-> seq[k]]

\* queued() reads the queue
QueuedStep == gen = None /\ gen' # None

\* pending() computes the list that generate cuts to max
PendingStep == gen # None /\ gen.pc = "queued" /\ gen'.pc = "loop"

\* the generate call has ended, by return or by exception
GenerateEnded == gen # None /\ gen.pc \in {"returned", "raised"}

\* C18: a call generate(max, submit) invokes queue_job exactly once for each
\* of the first min(max, number of pending tags) tags of the sorted pending
\* list and for no other tag, pending being available() minus the tags
\* output, waiting or running when the call read them.
GenerateQueuesPending ==
    /\ [][QueuedStep =>
            /\ gen'.waiting = {jobs[k].tag : k \in {j \in DOMAIN jobs : jobs[j].st = "PD"}}
            /\ gen'.running = {jobs[k].tag : k \in {j \in DOMAIN jobs : jobs[j].st = "R"}}]_vars
    /\ [][PendingStep =>
            gen'.to_run =
                FirstN(SortedSeq(avail \ (outputs \cup gen.waiting \cup gen.running)),
                       gen.max)]_vars
    /\ [](GenerateEnded => gen.invoked = gen.to_run)

\* an iteration of the unpacking loop over an intra-cylinder baseline
IntraStep == UnpackStep /\ xindex[vis_ind] = 0 /\ intracyl

\* C19: once an intra-cylinder baseline (cylinder separation 0, intracyl
\* enabled) with visibility v and bin k has been packed, the visibility grid
\* cell at bin +k holds v itself, for k = 0 as well.
IntraOwnCellHoldsVisibility ==
    [][IntraStep =>
        \A f \in Freqs : vdr'[f][OwnCell(vis_ind)] = vis[f][vis_ind]]_vars

\* an iteration of the unpacking loop outside the intra-cylinder case
InterStep == UnpackStep /\ (xindex[vis_ind] > 0 \/ ~intracyl)

\* C20: packing a baseline with cylinder separation > 0, or any baseline when
\* intracyl is False, writes visibility, weight and coefficient to the cell
\* of its own +bin and leaves every other cell of vdr, wgh and smp, the
\* mirror cell at -bin included, unchanged.
NoConjugateFill ==
    [][InterStep =>
        \A f \in Freqs :
            /\ vdr'[f][OwnCell(vis_ind)] = vis[f][vis_ind]
            /\ wgh'[f][OwnCell(vis_ind)] = weight[f][vis_ind]
            /\ smp'[f][OwnCell(vis_ind)] = W(weighting, vis_ind)[f]
            /\ \A c \in Cells \ {OwnCell(vis_ind)} :
                /\ vdr'[f][c] = vdr[f][c]
                /\ wgh'[f][c] = wgh[f][c]
                /\ smp'[f][c] = smp[f][c]]_vars

\* the first baseline, of non-zero bin and outside the intra-cylinder case,
\* was packed: its own cell holds its data and the mirror cell is untouched
NoConjugateFillWitness ==
    /\ pc = "unpack" /\ vis_ind = 2
    /\ xindex[1] > 0 \/ ~intracyl
    /\ yindex[1] # 0
    /\ MirrorCell(1) \in Cells /\ MirrorCell(1) # OwnCell(1)
    /\ vis[1][1] # <<0, 0>> /\ weight[1][1] > 0
    /\ vdr[1][OwnCell(1)] = vis[1][1]
    /\ wgh[1][OwnCell(1)] = weight[1][1]
    /\ smp[1][OwnCell(1)] = W(weighting, 1)[1]
    /\ vdr[1][MirrorCell(1)] = <<0, 0>>
    /\ wgh[1][MirrorCell(1)] = 0
    /\ smp[1][MirrorCell(1)] = RatZero

\* the vector of 2 at every cylinder separation >= 1 and of zero at
\* separation 0
CylinderVector(zero) == [c \in 0..(ncyl - 1) |-> IF c = 0 THEN zero ELSE 2]

\* the normalisation of line 175
NormalizeStep == pc = "autos_removed" /\ pc' = "normalized"

\* the vector coeff is v, and the normalisation divisor and the rms sum are
\* taken with v
VectorInUse(v) ==
    /\ coeff # None => coeff = v
    /\ rm # None =>
        \A f \in Freqs : \A p \in Pols :
            rm.rms2[f][p] =
                DotSum(v,
                       [g \in 1..nfreq |->
                           [c \in Cells |->
                               RatMul(InvertNoZero(Rat(wgh[g][c], 1)),
                                      RatMul(smp[g][c], smp[g][c]))]],
                       f, p)

DivisorUses(v) ==
    NormalizeStep =>
        \A f \in Freqs : \A c \in Cells :
            smp'[f][c] = RatMul(smp[f][c], InvertNoZero(DotSum(v, smp, f, c[1])))

\* C21: the cylinder-count weighting vector used in the normalisation
\* divisor and in the rms sum is 2 at every cylinder separation c >= 1 and 1
\* at c = 0, whether intracyl is True or False.
CylinderVectorOneAtZero ==
    [](VectorInUse(CylinderVector(1))) /\ [][DivisorUses(CylinderVector(1))]_vars

\* C21 amended: the vector is 2 at every cylinder separation c >= 1; at
\* c = 0 it is 1 when intracyl is True and 2 when intracyl is False.
CylinderVectorByIntracyl ==
    /\ [](VectorInUse(CylinderVector(IF intracyl THEN 1 ELSE 2)))
    /\ [][DivisorUses(CylinderVector(IF intracyl THEN 1 ELSE 2))]_vars

\* a run without intracyl over two cylinders returned: the vector is <<2, 2>>
\* and an intra-cylinder baseline contributed to the rms with it
CylinderVectorWitness ==
    /\ pc = "done" /\ ~intracyl /\ ncyl = 2
    /\ coeff[0] = 2 /\ coeff[1] = 2
    /\ \E b \in Baselines :
        /\ xindex[b] = 0
        /\ smp[1][OwnCell(b)] # RatZero
        /\ rm.rms2[1][pol[b]] # RatZero

\* a call of create_rev
CreateRevCall ==
    /\ made' # None /\ made'.op = "create_rev"
    /\ <<revdir, made>>' # <<revdir, made>>

\* the numbers of the revisions ls_rev lists
Listed(dir) == {ParseInt(LsRev(dir)[k]) : k \in 1..Len(LsRev(dir))}

\* C22: starting from any set of revisions, every call of create_rev creates
\* a directory for a revision that did not exist before, rev_00 when none
\* exists and otherwise one greater than the highest existing revision; after
\* the call the new revision is listed by ls_rev, is the last element of
\* ls_rev and is the one latest() returns.
RevisionNumbering ==
    [][CreateRevCall =>
        /\ made'.err = "none" /\ made'.rev # None
        /\ LET new == made'.rev[1]
           IN  /\ new \notin revdir
               /\ revdir' = revdir \cup {new}
               /\ IF Listed(revdir) = {}
                  THEN new = <<0, 0>>
                  ELSE ParseInt(new) = SetMax(Listed(revdir)) + 1
               /\ \E k \in 1..Len(LsRev(revdir')) : LsRev(revdir')[k] = new
               /\ LsRev(revdir')[Len(LsRev(revdir'))] = new
               /\ LatestRev(revdir') = Some(new)]_vars

\* a call of LoadFilesFromParams.process
ProcessCall == task # None /\ task'.calls = task.calls + 1

\* the tags of the file groups, in list order
GroupTags(t) == [k \in 1..Len(t.filegroups) |-> t.filegroups[k].tag]

FftFreq(s, n) == IF s <= (n - 1) \div 2 THEN s ELSE s - n

\* line 180: vis_pos_1d = fftfreq(nvis_1d, d=1 / (nvis_1d * min_ysep))
VisPos1d(s) == FftFreq(s, nvis_1d) * min_ysep

\* the signed bins the unpacking loop writes for baseline b
BinsWritten(b) ==
    IF IntraBranch(b) THEN {yindex[b], -yindex[b]} ELSE {yindex[b]}

\* C24: within one polarisation and cylinder separation two baselines of
\* different row-separation bins are never written to the same grid slot
\* (the mapping of signed bins to slots, negative bins wrapping from the end
\* of the nvis_1d axis, is one-to-one over the bins that occur), and the slot
\* bin k is written to is the slot of physical position k * min_ysep.
PackingInjective ==
    UnpackFinished =>
        /\ \A b1, b2 \in Baselines :
            (pol[b1] = pol[b2] /\ xindex[b1] = xindex[b2]) =>
                \A k1 \in BinsWritten(b1) : \A k2 \in BinsWritten(b2) :
                    k1 # k2 => Slot(k1, nvis_1d) # Slot(k2, nvis_1d)
        /\ \A b \in Baselines : \A k \in BinsWritten(b) :
            VisPos1d(Slot(k, nvis_1d)) = k * min_ysep

\* the jobs of tag t that are in the queue and not finished: waiting or
\* running
Unfinished(t) == {j \in DOMAIN jobs : jobs[j].tag = t /\ jobs[j].st \in {"PD", "R"}}

\* C25: when two generate calls for the same type and revision run
\* concurrently, in any interleaving of their reads of the queue and their
\* queue_job calls, no tag is in the queue more than once while it is not
\* finished.
NoDuplicateSubmission ==
    callers # None => \A t \in Tags : Cardinality(Unfinished(t)) <= 1

====
